---- MODULE Spec2Model ----
(***************************************************************************)
(* Model of src/app.py: the scoring of a 30-question test, the tests and   *)
(* webhook_logs tables, the Mercado Pago payment flow (create_payment,     *)
(* the webhook), the result endpoints and the hourly cleanup thread.       *)
(*                                                                         *)
(* Time is counted in hours.  Every handler that touches the database in   *)
(* one SQLite transaction is one action; create_payment, which reads, then *)
(* calls the provider, then writes in a second transaction, is three.      *)
(* The webhook holds SQLite's write lock from its INSERT to its commit, so *)
(* a second writer either waits for the commit or fails with "database is  *)
(* locked" (sqlite3.Error): the handler is one action with a storage       *)
(* failure outcome.                                                        *)
(***************************************************************************)
EXTENDS Integers, Sequences, FiniteSets, TLC

VARIABLES
    sweeper,        \* position of the cleanup thread: "running" or "dead"
    now,            \* datetime.now(), in hours
    ticks,          \* how many times the clock has advanced
    tests,          \* table tests: uuid -> row
    webhook_logs,   \* table webhook_logs: sequence of rows
    uuids,          \* how many uuid4 values have been generated
    charges,        \* the provider's payments: id -> payment
    inflight,       \* create_payment requests between their SELECT and UPDATE
    resp            \* the last response a handler (or cleanup tick) produced

vars == <<sweeper, now, ticks, tests, webhook_logs, uuids, charges, inflight, resp>>

---------------------------------------------------------------------------
(* Bounds of the model *)

\* the rows, payments and clock steps one behaviour may create, all told
MaxWork == 4
\* the rows the scoring specification stores
MaxScored == 2

(* Program constants *)

NUM_QUESTIONS == 30
MAX_ANSWER == 4
EXPIRES_HOURS == 24
CHARGE_HOURS == 2
IQ_MIN == 50
IQ_MAX == 200

NULL == "NULL"

UuidNames == <<"u1", "u2", "u3", "u4", "u5", "u6", "u7", "u8">>
ChargeNames == <<"p1", "p2", "p3", "p4", "p5", "p6", "p7", "p8">>
UnknownUuid == "u0"

\* the uuids generated so far: stored rows and rows since deleted
Generated == {UuidNames[i] : i \in 1..uuids}

\* a create_payment request that has read its row is about to create a payment
Selected == {r \in inflight : r.stage = "selected"}

Work == uuids + Cardinality(DOMAIN charges) + Cardinality(Selected)
        + Len(webhook_logs) + ticks

---------------------------------------------------------------------------
(* Scoring: submit_test, lines 192-232 *)

correct_answers_list ==
    <<1, 2, 3, 1, 4, 3, 2, 0, 1, 1, 1, 1, 1, 2, 2,
      4, 2, 1, 1, 1, 0, 0, 3, 1, 1, 1, 1, 3, 0, 0>>

RECURSIVE CountFrom(_, _)
CountFrom(user_answers, i) ==
    IF i > Len(user_answers) THEN 0
    ELSE (IF i <= Len(correct_answers_list) /\ user_answers[i] = correct_answers_list[i]
          THEN 1 ELSE 0) + CountFrom(user_answers, i + 1)

CorrectCount(user_answers) == CountFrom(user_answers, 1)

\* percentage = (correct_count / 30) * 100, kept as the numerator of a
\* fraction over 30: the float results of all 31 counts equal the exact ones.
PercentNum(correct_count) == correct_count * 100

\* round(percentage, 1) (line 268), in tenths: the nearest integer to pn/3
\* (pn is a multiple of 100, so pn/3 is never half way)
Round1(pn) == (2 * pn + 3) \div 6

\* IntTrunc that rounds up
IntCeiling(n, d) == (n + d - 1) \div d

\* int(x) of Python: truncation toward zero of n/d, d > 0
IntTrunc(n, d) == IF n >= 0 THEN n \div d ELSE -((-n) \div d)

\* int(base + (percentage - lo) * sn/sd) with percentage = pn/30
Band(base, lo, sn, sd, pn) ==
    IntTrunc(base * NUM_QUESTIONS * sd + (pn - lo * NUM_QUESTIONS) * sn,
             NUM_QUESTIONS * sd)

RawIq(pn) ==
    IF pn >= 95 * NUM_QUESTIONS THEN Band(145, 95, 2, 1, pn)
    ELSE IF pn >= 85 * NUM_QUESTIONS THEN Band(130, 85, 3, 2, pn)
    ELSE IF pn >= 70 * NUM_QUESTIONS THEN Band(115, 70, 1, 1, pn)
    ELSE IF pn >= 50 * NUM_QUESTIONS THEN Band(100, 50, 3, 4, pn)
    ELSE IF pn >= 30 * NUM_QUESTIONS THEN Band(85, 30, 3, 4, pn)
    ELSE Band(70, 0, 1, 2, pn)

Max2(a, b) == IF a >= b THEN a ELSE b
Min2(a, b) == IF a <= b THEN a ELSE b

ClampIq(iq) == Max2(IQ_MIN, Min2(IQ_MAX, iq))

IqScore(correct_count) == ClampIq(RawIq(PercentNum(correct_count)))

Level(iq_score) ==
    IF iq_score >= 140 THEN "Genio"
    ELSE IF iq_score >= 130 THEN "Superdotado"
    ELSE IF iq_score >= 115 THEN "Acima da Media"
    ELSE IF iq_score >= 85 THEN "Media"
    ELSE "Abaixo da Media"

---------------------------------------------------------------------------
(* Rows and responses *)

\* NewRow with the score and correct_answers parameters of the INSERT swapped
NewRowSwapped(user_answers, iq_score, level, correct_count, percentage, customer_email, t) ==
    [user_answers |-> user_answers,
     score |-> correct_count,
     level |-> level,
     correct_answers |-> iq_score,
     percentage |-> percentage,
     payment_id |-> NULL,
     payment_status |-> "pending",
     qr_code_data |-> NULL,
     customer_email |-> customer_email,
     created_at |-> t,
     expires_at |-> t + EXPIRES_HOURS]

\* NewRow whose expires_at is the time of creation
NewRowExpiresAtOnce(user_answers, iq_score, level, correct_count, percentage, customer_email, t) ==
    [user_answers |-> user_answers,
     score |-> iq_score,
     level |-> level,
     correct_answers |-> correct_count,
     percentage |-> percentage,
     payment_id |-> NULL,
     payment_status |-> "pending",
     qr_code_data |-> NULL,
     customer_email |-> customer_email,
     created_at |-> t,
     expires_at |-> t]

\* INSERT INTO tests (...), lines 245-251; payment_id, qr_code_data are NULL
\* and payment_status takes its column default (line 70)
NewRow(user_answers, iq_score, level, correct_count, percentage, customer_email, t) ==
    [user_answers |-> user_answers,
     score |-> iq_score,
     level |-> level,
     correct_answers |-> correct_count,
     percentage |-> percentage,
     payment_id |-> NULL,
     payment_status |-> "pending",
     qr_code_data |-> NULL,
     customer_email |-> customer_email,
     created_at |-> t,
     expires_at |-> t + EXPIRES_HOURS]

Resp(op, arg, code, body) == [op |-> op, arg |-> arg, code |-> code, body |-> body]

NoBody == [error |-> "none"]

---------------------------------------------------------------------------
(* submit_test, lines 155-275 *)

\* SubmitError without the upper limit of an answer
SubmitErrorNoUpper(req) ==
    IF ~req.is_json THEN "not_json"
    ELSE IF ~req.has_data THEN "empty"
    ELSE IF Len(req.answers) # NUM_QUESTIONS THEN "length"
    ELSE IF \E i \in 1..Len(req.answers) : req.answers[i] < 0 THEN "range"
    ELSE "ok"

\* the first validation that fails (lines 162-190), or "ok"
SubmitError(req) ==
    IF ~req.is_json THEN "not_json"
    ELSE IF ~req.has_data THEN "empty"
    ELSE IF Len(req.answers) # NUM_QUESTIONS THEN "length"
    ELSE IF \E i \in 1..Len(req.answers) :
                req.answers[i] < 0 \/ req.answers[i] > MAX_ANSWER THEN "range"
    ELSE "ok"

SubmitTest(req) ==
    LET err == SubmitError(req)
        correct_count == CorrectCount(req.answers)
        percentage == PercentNum(correct_count)
        iq_score == IqScore(correct_count)
        level == Level(iq_score)
        test_uuid == UuidNames[uuids + 1]
    IN
    /\ UNCHANGED <<sweeper, now, ticks, webhook_logs, charges, inflight>>
    /\ \/ /\ err # "ok"
          /\ resp' = Resp("submit_test", req, 400, [error |-> err])
          /\ UNCHANGED <<tests, uuids>>
       \/ /\ err = "ok"
          /\ Work < MaxWork
          /\ uuids' = uuids + 1
          /\ tests' = [u \in DOMAIN tests \cup {test_uuid} |->
                          IF u = test_uuid
                          THEN NewRow(req.answers, iq_score, level, correct_count,
                                      percentage, req.email, now)
                          ELSE tests[u]]
          /\ resp' = Resp("submit_test", req, 200,
                          [test_uuid |-> test_uuid, score |-> iq_score, level |-> level,
                           correct_answers |-> correct_count,
                           percentage |-> Round1(percentage)])
       \/ /\ err = "ok"
          /\ Work < MaxWork
          \* sqlite3.Error on connect, INSERT or commit (lines 258-260)
          /\ resp' = Resp("submit_test", req, 500, [error |-> "db"])
          /\ UNCHANGED <<tests, uuids>>

---------------------------------------------------------------------------
(* create_payment, lines 277-413: SELECT, provider call, UPDATE *)

QrNames == <<"qr1", "qr2", "qr3", "qr4", "qr5", "qr6", "qr7", "qr8">>

\* lines 283-309: the request is checked and the test row is read
CreatePaymentSelect(req) ==
    /\ UNCHANGED <<sweeper, now, ticks, tests, webhook_logs, uuids, charges>>
    /\ \/ /\ ~req.has_data \/ req.test_uuid = NULL
          /\ resp' = Resp("create_payment", req.test_uuid, 400, [error |-> "test_uuid"])
          /\ UNCHANGED inflight
       \/ /\ req.has_data /\ req.test_uuid # NULL
          /\ req.test_uuid \notin DOMAIN tests
          /\ resp' = Resp("create_payment", req.test_uuid, 404, [error |-> "not_found"])
          /\ UNCHANGED inflight
       \/ /\ req.has_data /\ req.test_uuid # NULL
          \* sqlite3.Error (lines 307-309)
          /\ resp' = Resp("create_payment", req.test_uuid, 500, [error |-> "db"])
          /\ UNCHANGED inflight
       \/ /\ req.has_data /\ req.test_uuid # NULL
          /\ req.test_uuid \in DOMAIN tests
          /\ Work < MaxWork
          /\ inflight' = inflight \cup
                 {[test_uuid |-> req.test_uuid,
                   email |-> tests[req.test_uuid].customer_email,
                   stage |-> "selected", payment_id |-> NULL, qr_code_base64 |-> ""]}
          /\ UNCHANGED resp

\* payer.email, line 324
PayerEmail(email) == IF email # NULL /\ email # "" THEN email ELSE "cliente@qi-test.com.br"

\* CreatePaymentCharge whose failure takes the payment off the row
CreatePaymentChargeDetach(r) ==
    /\ r \in inflight /\ r.stage = "selected"
    /\ UNCHANGED <<sweeper, now, ticks, webhook_logs, uuids>>
    /\ \/ /\ resp' = Resp("create_payment", r.test_uuid, 500, [error |-> "mp_status"])
          /\ inflight' = inflight \ {r}
          /\ tests' = [u \in DOMAIN tests |->
                          IF u = r.test_uuid
                          THEN [tests[u] EXCEPT !.payment_id = NULL, !.qr_code_data = NULL]
                          ELSE tests[u]]
          /\ UNCHANGED charges
       \/ /\ LET n == Cardinality(DOMAIN charges) + 1
                 payment_id == ChargeNames[n]
             IN /\ charges' = [c \in DOMAIN charges \cup {payment_id} |->
                                  IF c = payment_id
                                  THEN [status |-> "pending",
                                        external_reference |-> r.test_uuid,
                                        payer |-> r.email,
                                        date_of_expiration |-> now + CHARGE_HOURS]
                                  ELSE charges[c]]
                /\ inflight' = (inflight \ {r}) \cup
                       {[r EXCEPT !.stage = "charged", !.payment_id = payment_id,
                                  !.qr_code_base64 = QrNames[n]]}
                /\ UNCHANGED <<resp, tests>>

\* lines 340-382: sdk.payment().create and the QR code of the answer
CreatePaymentCharge(r) ==
    /\ r \in inflight /\ r.stage = "selected"
    /\ UNCHANGED <<sweeper, now, ticks, tests, webhook_logs, uuids>>
    /\ \/ \* the call raises (lines 344-347) or answers with a status other than 201
          /\ \E why \in {"mp_exception", "mp_status"} :
                 resp' = Resp("create_payment", r.test_uuid, 500, [error |-> why])
          /\ inflight' = inflight \ {r}
          /\ UNCHANGED charges
       \/ /\ LET n == Cardinality(DOMAIN charges) + 1
                 payment_id == ChargeNames[n]
             IN /\ charges' = [c \in DOMAIN charges \cup {payment_id} |->
                                  IF c = payment_id
                                  THEN [status |-> "pending",
                                        external_reference |-> r.test_uuid,
                                        payer |-> PayerEmail(r.email),
                                        date_of_expiration |-> now + CHARGE_HOURS]
                                  ELSE charges[c]]
                \* qr_code_base64 comes from the provider or is generated from
                \* qr_code (lines 363-382): one image per payment
                /\ inflight' = (inflight \ {r}) \cup
                       {[r EXCEPT !.stage = "charged", !.payment_id = payment_id,
                                  !.qr_code_base64 = QrNames[n]]}
                /\ UNCHANGED resp

\* AttachPayment that also stores the count of correct answers as the score
AttachPaymentRescored(t, test_uuid, payment_id, qr_code_base64) ==
    [u \in DOMAIN t |->
        IF u = test_uuid
        THEN [t[u] EXCEPT !.payment_id = payment_id, !.qr_code_data = qr_code_base64,
                          !.score = t[u].correct_answers]
        ELSE t[u]]

\* UPDATE tests SET payment_id = ?, qr_code_data = ? WHERE uuid = ? (lines 386-390)
AttachPayment(t, test_uuid, payment_id, qr_code_base64) ==
    [u \in DOMAIN t |->
        IF u = test_uuid
        THEN [t[u] EXCEPT !.payment_id = payment_id, !.qr_code_data = qr_code_base64]
        ELSE t[u]]

\* lines 384-407
CreatePaymentUpdate(r) ==
    /\ r \in inflight /\ r.stage = "charged"
    /\ UNCHANGED <<sweeper, now, ticks, webhook_logs, uuids, charges>>
    /\ inflight' = inflight \ {r}
    /\ \/ /\ tests' = AttachPayment(tests, r.test_uuid, r.payment_id, r.qr_code_base64)
          /\ resp' = Resp("create_payment", r.test_uuid, 200,
                          [payment_id |-> r.payment_id,
                           qr_code_base64 |-> r.qr_code_base64,
                           expiration_time |-> 7200])
       \/ \* sqlite3.Error (lines 396-399)
          /\ resp' = Resp("create_payment", r.test_uuid, 500, [error |-> "db"])
          /\ UNCHANGED tests

---------------------------------------------------------------------------
(* The provider: payments change status outside the program *)

ForeignCharge == "p9"

\* a payment of the same account that no create_payment made: it carries no
\* external_reference
ForeignPayment ==
    [status |-> "approved", external_reference |-> NULL,
     payer |-> "other", date_of_expiration |-> 0]

ProviderFinal == {"approved", "authorized", "rejected", "cancelled"}

ProviderUpdate(c, s) ==
    /\ c \in DOMAIN charges
    /\ charges[c].status = "pending"
    /\ s \in ProviderFinal
    /\ s \in {"approved", "authorized"} => now < charges[c].date_of_expiration
    /\ charges' = [charges EXCEPT ![c].status = s]
    /\ UNCHANGED <<sweeper, now, ticks, tests, webhook_logs, uuids, inflight, resp>>

---------------------------------------------------------------------------
(* mercadopago_webhook, lines 415-494 *)

\* data.get('data', {}).get('id') raises AttributeError unless data is a dict
\* whose 'data' is absent or a dict (lines 432-433)
WellShaped(data) == data.shape = "dict" /\ data.data \in {"absent", "dict"}

\* line 432: the id, or None when absent or falsy
PayloadId(data) == IF data.data = "dict" THEN data.id ELSE NULL

\* line 441
IsPaymentEvent(data) == data.action = "payment.updated" \/ data.type = "payment"

\* INSERT INTO webhook_logs (payment_id, status, data), lines 435-438
LogRow(data) == [payment_id |-> PayloadId(data), status |-> data.action, data |-> data]

\* MapStatus that takes no notice of an authorized payment
MapStatusNoAuthorized(payment_status) ==
    IF payment_status = "approved" THEN "approved"
    ELSE IF payment_status \in {"rejected", "cancelled"} THEN "rejected"
    ELSE NULL

\* lines 458 and 471: the status to store, or NULL for no UPDATE
MapStatus(payment_status) ==
    IF payment_status \in {"approved", "authorized"} THEN "approved"
    ELSE IF payment_status \in {"rejected", "cancelled"} THEN "rejected"
    ELSE NULL

\* UpdatePaymentStatus that puts a row already in the new status back to pending
UpdatePaymentStatusReset(t, test_uuid, new_status) ==
    [u \in DOMAIN t |->
        IF u = test_uuid
        THEN [t[u] EXCEPT !.payment_status =
                 IF t[u].payment_status = new_status THEN "pending" ELSE new_status]
        ELSE t[u]]

\* UPDATE tests SET payment_status = ? WHERE uuid = ? (lines 460-464, 472-476)
UpdatePaymentStatus(t, test_uuid, new_status) ==
    [u \in DOMAIN t |->
        IF u = test_uuid THEN [t[u] EXCEPT !.payment_status = new_status] ELSE t[u]]

\* cursor.rowcount of that UPDATE: the rows the WHERE clause matched
RowCount(t, test_uuid) == IF test_uuid \in DOMAIN t THEN 1 ELSE 0

\* lines 451-477, for the payment the provider returned
DoesUpdate(payment) ==
    /\ payment.external_reference # NULL
    /\ payment.external_reference # ""
    /\ MapStatus(payment.status) # NULL

Reconcile(t, payment) ==
    IF DoesUpdate(payment)
    THEN UpdatePaymentStatus(t, payment.external_reference, MapStatus(payment.status))
    ELSE t

Provider == [c \in DOMAIN charges \cup {ForeignCharge} |->
                IF c = ForeignCharge THEN ForeignPayment ELSE charges[c]]

\* LookupFailed that lets the failure of the lookup reach the sender
LookupFailedPropagates(data) ==
    Resp("webhook", data, 500, [status |-> "ok", outcome |-> "lookup_failed"])

\* the lookup raised (caught at lines 479-480) or answered with a status
\* other than 200: the handler goes on to the commit and answers 200
LookupFailed(data) ==
    Resp("webhook", data, 200, [status |-> "ok", outcome |-> "lookup_failed"])

Webhook(data) ==
    /\ UNCHANGED <<sweeper, now, ticks, uuids, charges, inflight>>
    /\ \/ \* lines 422-424
          /\ data.shape = "falsy"
          /\ resp' = Resp("webhook", data, 200, [status |-> "ok", outcome |-> "no_data"])
          /\ UNCHANGED <<tests, webhook_logs>>
       \/ \* AttributeError reaches the outer handler (lines 490-494)
          /\ data.shape # "falsy" /\ ~WellShaped(data)
          /\ resp' = Resp("webhook", data, 500, [error |-> "exception"])
          /\ UNCHANGED <<tests, webhook_logs>>
       \/ \* sqlite3.Error, from the connection (line 428) on: it is caught (lines
          \* 485-488) and nothing of the transaction is committed
          /\ data.shape # "falsy"
          /\ resp' = Resp("webhook", data, 200, [status |-> "ok", outcome |-> "db_error"])
          /\ UNCHANGED <<tests, webhook_logs>>
       \/ \* logged; not a payment event, or one without an id
          /\ WellShaped(data)
          /\ ~IsPaymentEvent(data) \/ PayloadId(data) = NULL
          /\ Work < MaxWork
          /\ webhook_logs' = Append(webhook_logs, LogRow(data))
          /\ resp' = Resp("webhook", data, 200, [status |-> "ok", outcome |-> "logged"])
          /\ UNCHANGED tests
       \/ \* sdk.payment().get raises or answers with a status other than 200
          /\ WellShaped(data)
          /\ IsPaymentEvent(data) /\ PayloadId(data) # NULL
          /\ Work < MaxWork
          /\ webhook_logs' = Append(webhook_logs, LogRow(data))
          /\ resp' = LookupFailed(data)
          /\ UNCHANGED tests
       \/ \* the provider returns the payment (line 451)
          /\ WellShaped(data)
          /\ IsPaymentEvent(data) /\ PayloadId(data) # NULL
          /\ PayloadId(data) \in DOMAIN Provider
          /\ Work < MaxWork
          /\ webhook_logs' = Append(webhook_logs, LogRow(data))
          /\ LET payment == Provider[PayloadId(data)]
             IN /\ tests' = Reconcile(tests, payment)
                /\ resp' = Resp("webhook", data, 200,
                                [status |-> "ok", outcome |-> "looked_up",
                                 payment_status |-> payment.status,
                                 external_reference |-> payment.external_reference,
                                 rowcount |-> IF DoesUpdate(payment)
                                              THEN RowCount(tests, payment.external_reference)
                                              ELSE -1])

---------------------------------------------------------------------------
(* check_payment, lines 496-533, and get_result, lines 535-576 *)

\* the result fields both endpoints answer with
ResultBody(test_uuid, row) ==
    [test_uuid |-> test_uuid,
     payment_status |-> row.payment_status,
     score |-> row.score,
     level |-> row.level,
     correct_answers |-> row.correct_answers,
     percentage |-> row.percentage,
     user_answers |-> row.user_answers]

\* CheckPayment that answers an id it does not find as a pending row
CheckPaymentUnknownOk(test_uuid) ==
    /\ UNCHANGED <<sweeper, now, ticks, tests, webhook_logs, uuids, charges, inflight>>
    /\ resp' = Resp("check_payment", test_uuid, 200,
                    IF test_uuid \in DOMAIN tests
                    THEN ResultBody(test_uuid, tests[test_uuid])
                    ELSE [test_uuid |-> test_uuid, payment_status |-> "pending"])

CheckPayment(test_uuid) ==
    /\ UNCHANGED <<sweeper, now, ticks, tests, webhook_logs, uuids, charges, inflight>>
    /\ \/ /\ test_uuid \notin DOMAIN tests
          /\ resp' = Resp("check_payment", test_uuid, 404, [error |-> "not_found"])
       \/ /\ test_uuid \in DOMAIN tests
          /\ resp' = Resp("check_payment", test_uuid, 200,
                          ResultBody(test_uuid, tests[test_uuid]))
       \/ \* any exception, a storage failure among them (lines 531-533)
          resp' = Resp("check_payment", test_uuid, 500, [error |-> "db"])

\* Released for every settled row, rejected ones too
ReleasedSettled(row) == row.payment_status # "pending"

\* line 555
Released(row) == row.payment_status = "approved"

GetResult(test_uuid) ==
    /\ UNCHANGED <<sweeper, now, ticks, tests, webhook_logs, uuids, charges, inflight>>
    /\ \/ /\ test_uuid \notin DOMAIN tests
          /\ resp' = Resp("get_result", test_uuid, 404, [error |-> "not_found"])
       \/ /\ test_uuid \in DOMAIN tests
          /\ ~Released(tests[test_uuid])
          /\ resp' = Resp("get_result", test_uuid, 403,
                          [error |-> "not_approved",
                           payment_status |-> tests[test_uuid].payment_status])
       \/ /\ test_uuid \in DOMAIN tests
          /\ Released(tests[test_uuid])
          /\ resp' = Resp("get_result", test_uuid, 200,
                          ResultBody(test_uuid, tests[test_uuid]))
       \/ \* lines 574-576
          resp' = Resp("get_result", test_uuid, 500, [error |-> "db"])

---------------------------------------------------------------------------
(* cleanup_expired_tests, lines 103-120: one tick of the loop *)

\* Expired without the payment_status condition
ExpiredAnyStatus(row, t) == row.expires_at < t

\* the WHERE clause of the DELETE (line 109)
Expired(row, t) == row.expires_at < t /\ row.payment_status = "pending"

\* The thread runs a tick when the process starts and one an hour after each
\* (line 120); a tick may come at any time of a row's life.
\* AfterTick for a loop that a failing tick ends
AfterTickDies(code) == IF code = 200 THEN "running" ELSE "dead"

\* where the thread is after a tick: the except clause (lines 116-117) catches
\* the failure of the tick, and the while True loop sleeps and goes on
AfterTick(code) == "running"

Cleanup ==
    /\ sweeper = "running"
    /\ UNCHANGED <<now, ticks, webhook_logs, uuids, charges, inflight>>
    /\ \/ LET gone == {u \in DOMAIN tests : Expired(tests[u], now)}
          IN /\ tests' = [u \in DOMAIN tests \ gone |-> tests[u]]
             /\ resp' = Resp("cleanup", now, 200, [deleted |-> Cardinality(gone)])
       \/ \* the tick raises (lines 116-117); the loop goes on
          /\ resp' = Resp("cleanup", now, 500, [error |-> "db"])
          /\ UNCHANGED tests
    /\ sweeper' = AfterTick(resp'.code)

---------------------------------------------------------------------------
(* The clock *)

TickSteps == {EXPIRES_HOURS, EXPIRES_HOURS + 1}

Tick(d) ==
    /\ Work < MaxWork
    /\ ticks' = ticks + 1
    /\ now' = now + d
    /\ UNCHANGED <<sweeper, tests, webhook_logs, uuids, charges, inflight, resp>>

---------------------------------------------------------------------------
(* Inputs *)

Wrong(i) == (correct_answers_list[i] + 1) % (MAX_ANSWER + 1)

\* the key on its first c positions, a wrong answer elsewhere
PrefixCorrect(c) ==
    [i \in 1..NUM_QUESTIONS |-> IF i <= c THEN correct_answers_list[i] ELSE Wrong(i)]

\* the key on its last c positions
SuffixCorrect(c) ==
    [i \in 1..NUM_QUESTIONS |->
        IF i > NUM_QUESTIONS - c THEN correct_answers_list[i] ELSE Wrong(i)]

\* a valid sequence with position k replaced by v
WithAnswer(a, k, v) == [a EXCEPT ![k] = v]

SubmitBody(answers, email) ==
    [is_json |-> TRUE, has_data |-> TRUE, answers |-> answers, email |-> email]

DefaultEmail == "cliente@qi-test.com.br"

InvalidAnswers ==
    {SubSeq(PrefixCorrect(NUM_QUESTIONS), 1, NUM_QUESTIONS - 1),
     Append(PrefixCorrect(NUM_QUESTIONS), 0),
     WithAnswer(PrefixCorrect(NUM_QUESTIONS), NUM_QUESTIONS, MAX_ANSWER + 1),
     WithAnswer(PrefixCorrect(NUM_QUESTIONS), 1, -1)}

BadRequests ==
    {[is_json |-> FALSE, has_data |-> FALSE, answers |-> <<>>, email |-> DefaultEmail],
     [is_json |-> TRUE, has_data |-> FALSE, answers |-> <<>>, email |-> DefaultEmail]}

\* the requests of the life-cycle specification: one valid, one invalid
SubmitRequests ==
    {SubmitBody(PrefixCorrect(12), DefaultEmail),
     SubmitBody(WithAnswer(PrefixCorrect(12), 1, MAX_ANSWER + 1), DefaultEmail)}

\* the requests of the scoring specification: every count of correct answers,
\* at the start or at the end of the sequence, and every kind of invalid request
ScoreAnswers ==
    {PrefixCorrect(c) : c \in 0..NUM_QUESTIONS}
    \cup {SuffixCorrect(c) : c \in {9, 15, 21}}

ScoreRequests ==
    {SubmitBody(a, DefaultEmail) : a \in ScoreAnswers \cup InvalidAnswers}
    \cup {SubmitBody(PrefixCorrect(NUM_QUESTIONS), "ana@example.com")}
    \cup BadRequests

PaymentRequests ==
    {[has_data |-> TRUE, test_uuid |-> u] : u \in Generated \cup {UnknownUuid, NULL}}

Payload(shape, action, type, data, id) ==
    [shape |-> shape, action |-> action, type |-> type, data |-> data, id |-> id]

Payloads ==
    {Payload("falsy", "", "", "absent", NULL),
     Payload("list", "", "", "absent", NULL),
     Payload("dict", "payment.updated", "payment", "scalar", NULL),
     Payload("dict", "", "merchant_order", "dict", ChargeNames[1]),
     Payload("dict", "", "merchant_order", "scalar", NULL),
     Payload("dict", "payment.created", "payment", "absent", NULL)}
    \cup {Payload("dict", "payment.updated", "payment", "dict", c) :
              c \in DOMAIN charges \cup {ForeignCharge}}

---------------------------------------------------------------------------
(* Specification *)

NoResp == Resp("none", NULL, 0, NoBody)

Init ==
    /\ sweeper = "running"
    /\ now = 0
    /\ ticks = 0
    /\ tests = <<>>
    /\ webhook_logs = <<>>
    /\ uuids = 0
    /\ charges = <<>>
    /\ inflight = {}
    /\ resp = NoResp

\* the response leaves the server; the next request is taken after it
Respond ==
    /\ resp # NoResp
    /\ resp' = NoResp
    /\ UNCHANGED <<sweeper, now, ticks, tests, webhook_logs, uuids, charges, inflight>>

Idle == resp = NoResp

Next ==
    \/ Idle /\ \E req \in SubmitRequests : SubmitTest(req)
    \/ Idle /\ \E req \in PaymentRequests : CreatePaymentSelect(req)
    \/ Idle /\ \E r \in inflight : CreatePaymentCharge(r)
    \/ Idle /\ \E r \in inflight : CreatePaymentUpdate(r)
    \/ Idle /\ \E c \in DOMAIN charges, s \in ProviderFinal : ProviderUpdate(c, s)
    \/ Idle /\ \E data \in Payloads : Webhook(data)
    \/ Idle /\ \E u \in Generated \cup {UnknownUuid} : CheckPayment(u)
    \/ Idle /\ \E u \in Generated \cup {UnknownUuid} : GetResult(u)
    \/ Idle /\ Cleanup
    \/ Idle /\ \E d \in TickSteps : Tick(d)
    \/ Respond

Spec == Init /\ [][Next]_vars

\* submit_test alone, on every scoring input
NextScore ==
    \/ Idle /\ \E req \in ScoreRequests : uuids < MaxScored /\ SubmitTest(req)
    \/ Respond

SpecScore == Init /\ [][NextScore]_vars

\* every uuid a behaviour can generate
AllUuids == {UuidNames[i] : i \in 1..Len(UuidNames)}

\* the polling client: no notification is ever delivered, and the page asks
\* check_payment for each of its tests again and again, with an answer
NextPoll ==
    \/ Idle /\ \E req \in SubmitRequests : SubmitTest(req)
    \/ Idle /\ \E req \in PaymentRequests : CreatePaymentSelect(req)
    \/ Idle /\ \E r \in inflight : CreatePaymentCharge(r)
    \/ Idle /\ \E r \in inflight : CreatePaymentUpdate(r)
    \/ Idle /\ \E c \in DOMAIN charges, s \in ProviderFinal : ProviderUpdate(c, s)
    \/ Idle /\ \E u \in Generated : CheckPayment(u)
    \/ Respond

SpecPoll ==
    /\ Init /\ [][NextPoll]_vars
    /\ WF_vars(Respond)
    /\ \A u \in AllUuids :
           SF_vars(Idle /\ u \in Generated /\ CheckPayment(u) /\ resp'.code = 200)

\* the cleanup thread and the clock, with rows to expire: the thread takes
\* its ticks for ever, and the table is not unavailable for ever
NextSweep ==
    \/ Idle /\ \E req \in SubmitRequests : SubmitTest(req)
    \/ Idle /\ Cleanup
    \/ Idle /\ \E d \in TickSteps : Tick(d)
    \/ Respond

SpecSweep ==
    /\ Init /\ [][NextSweep]_vars
    /\ WF_vars(Respond)
    /\ SF_vars(Idle /\ Cleanup)
    /\ SF_vars(Idle /\ Cleanup /\ resp'.code = 200)

---------------------------------------------------------------------------
(* Claims *)

\* a step that is one run of the handler op: the response it leaves was not
\* there before (Respond empties resp before the next request is taken)
Handled(op) == resp = NoResp /\ resp'.op = op

Settled(row) == row.payment_status \in {"approved", "rejected"}

\* C1: payment_status is monotonic.  A settled row keeps its status in every
\* step, and a webhook whose UPDATE addresses a settled row reports 0 rows
\* affected.
C1_StatusMonotonic ==
    [][/\ \A u \in DOMAIN tests \cap DOMAIN tests' :
              Settled(tests[u]) => tests'[u].payment_status = tests[u].payment_status
       /\ (/\ Handled("webhook") /\ resp'.code = 200
           /\ resp'.body.outcome = "looked_up"
           /\ resp'.body.external_reference \in DOMAIN tests
           /\ Settled(tests[resp'.body.external_reference]))
          => resp'.body.rowcount = 0]_vars

\* C2: get_result for a stored row answers 403 with the current status while
\* the row is pending or rejected, and 200 with the full result only when it
\* is approved (500 when the row could not be read).
C2_GetResultGate ==
    (resp.op = "get_result" /\ resp.arg \in DOMAIN tests /\ resp.code # 500) =>
        LET row == tests[resp.arg]
        IN /\ row.payment_status \in {"pending", "rejected"} =>
                  /\ resp.code = 403
                  /\ resp.body = [error |-> "not_approved",
                                  payment_status |-> row.payment_status]
           /\ row.payment_status = "approved" =>
                  /\ resp.code = 200
                  /\ resp.body = ResultBody(resp.arg, row)

\* the result of an approved row was released
C2_Witness ==
    /\ resp.op = "get_result"
    /\ resp.code = 200
    /\ tests[resp.arg].payment_status = "approved"

\* C3: no answer of submit_test, check_payment or get_result carries the
\* score or the level of a row that is not approved.
C3_ReleaseOnlyApproved ==
    (resp.op \in {"submit_test", "check_payment", "get_result"} /\ resp.code = 200) =>
        /\ resp.body.test_uuid \in DOMAIN tests
        /\ tests[resp.body.test_uuid].payment_status = "approved"

\* C4: the webhook answers 200 to every request.
C4_WebhookAlways200 == resp.op = "webhook" => resp.code = 200

\* C5: a row leaves the table only when it is pending and its expires_at is
\* earlier than the time of the step, and a cleanup tick that succeeds removes
\* every such row; an approved or rejected row is never removed.
C5_SweepExact ==
    [][\A u \in DOMAIN tests :
          /\ u \notin DOMAIN tests' =>
                 tests[u].payment_status = "pending" /\ tests[u].expires_at < now
          /\ (/\ Handled("cleanup") /\ resp'.code = 200
              /\ tests[u].payment_status = "pending" /\ tests[u].expires_at < now)
             => u \notin DOMAIN tests']_vars

\* a cleanup tick has run past the expiry of an approved row, which is kept
C5_Witness ==
    /\ resp.op = "cleanup" /\ resp.code = 200
    /\ \E u \in DOMAIN tests :
           tests[u].payment_status = "approved" /\ tests[u].expires_at < resp.arg

\* C6: after a notification has been reconciled, reconciling it again while
\* the provider reports the same payment leaves every row as it is.
C6_Idempotent ==
    (resp.op = "webhook" /\ resp.code = 200 /\ resp.body.outcome = "looked_up") =>
        Reconcile(tests, [status |-> resp.body.payment_status,
                          external_reference |-> resp.body.external_reference]) = tests

\* the same notification has been logged twice and its UPDATE matched a row
C6_Witness ==
    /\ resp.op = "webhook" /\ resp.code = 200 /\ resp.body.outcome = "looked_up"
    /\ resp.body.rowcount = 1
    /\ Len(webhook_logs) >= 2
    /\ webhook_logs[Len(webhook_logs)] = webhook_logs[Len(webhook_logs) - 1]

\* C7: a row's payment_id and qr_code_data never change once payment_id is
\* set, and a create_payment that brings a different payment_id is refused
\* with a conflict (409).
C7_PaymentIdImmutable ==
    [][/\ \A u \in DOMAIN tests \cap DOMAIN tests' :
              tests[u].payment_id # NULL =>
                  /\ tests'[u].payment_id = tests[u].payment_id
                  /\ tests'[u].qr_code_data = tests[u].qr_code_data
       /\ (/\ Handled("create_payment")
           /\ \E r \in inflight :
                  /\ r.stage = "charged" /\ r \notin inflight'
                  /\ r.test_uuid \in DOMAIN tests
                  /\ tests[r.test_uuid].payment_id \notin {NULL, r.payment_id})
          => resp'.code = 409]_vars

\* C8: every run of the webhook handler adds exactly one row to webhook_logs.
C8_EveryWebhookLogged ==
    [][Handled("webhook") => Len(webhook_logs') = Len(webhook_logs) + 1]_vars

\* C9: every stored score lies in [50, 200], rows with the same score have
\* the same level, and rows with the same answers have the same score, level,
\* count and percentage.
C9_ScoreProps ==
    \A u \in DOMAIN tests :
        /\ tests[u].score >= IQ_MIN /\ tests[u].score <= IQ_MAX
        /\ \A v \in DOMAIN tests :
               /\ tests[u].score = tests[v].score => tests[u].level = tests[v].level
               /\ tests[u].user_answers = tests[v].user_answers =>
                      /\ tests[u].score = tests[v].score
                      /\ tests[u].level = tests[v].level
                      /\ tests[u].correct_answers = tests[v].correct_answers
                      /\ tests[u].percentage = tests[v].percentage

\* two rows with different answers and the same score are stored
C9_Witness ==
    \E u, v \in DOMAIN tests :
        /\ tests[u].user_answers # tests[v].user_answers
        /\ tests[u].score = tests[v].score

\* an answers sequence that is not 30 integers in 0..4
InvalidInput(req) ==
    \/ Len(req.answers) # 30
    \/ \E i \in 1..Len(req.answers) : req.answers[i] \notin 0..4

\* C10: submit_test answers an invalid answers sequence with 400 and stores
\* nothing.
C10_InvalidRejected ==
    [][(Handled("submit_test") /\ InvalidInput(resp'.arg)) =>
           (resp'.code = 400 /\ tests' = tests)]_vars

\* an out-of-range answer was refused while a row is stored
C10_Witness ==
    /\ resp.op = "submit_test" /\ resp.code = 400 /\ resp.body.error = "range"
    /\ DOMAIN tests # {}

\* the handlers that look a row up by the uuid of the request
LookupOps == {"create_payment", "check_payment", "get_result"}

\* C11: create_payment, check_payment and get_result, called with a uuid that
\* no stored row has (never generated, or deleted by the cleanup), answer 404,
\* create no payment and leave the table as it is (500 when the table could
\* not be read).
C11_UnknownIdNotFound ==
    [][(/\ \E op \in LookupOps : Handled(op)
        /\ inflight \subseteq inflight'
        /\ resp'.arg \notin DOMAIN tests \cup {NULL}
        /\ resp'.body # [error |-> "db"])
       => /\ resp'.code = 404
          /\ tests' = tests
          /\ charges' = charges
          /\ inflight' = inflight]_vars

\* create_payment was refused for a row the cleanup had deleted
C11_Witness ==
    /\ resp.op = "create_payment" /\ resp.code = 404
    /\ resp.arg \in Generated \ DOMAIN tests
    /\ inflight = {} /\ charges = <<>>

\* C12: when the provider's create call raises or answers with a status other
\* than 201, create_payment answers 500 and every row keeps its payment_id,
\* qr_code_data and payment_status.
C12_GatewayFailureKeepsRow ==
    [][(\E r \in inflight :
            r.stage = "selected" /\ r \notin inflight' /\ charges' = charges)
       => /\ resp'.op = "create_payment" /\ resp'.code = 500
          /\ tests' = tests]_vars

\* the provider failed for a row that carries an earlier payment
C12_Witness ==
    /\ resp.op = "create_payment" /\ resp.code = 500
    /\ resp.body.error \in {"mp_exception", "mp_status"}
    /\ resp.arg \in DOMAIN tests
    /\ tests[resp.arg].payment_id # NULL
    /\ tests[resp.arg].qr_code_data # NULL

\* the columns submit_test derives from the answers
Derived(row) ==
    <<row.user_answers, row.score, row.level, row.correct_answers, row.percentage>>

\* C13: no step changes the user_answers, score, level, correct_answers or
\* percentage of a stored row.
C13_DerivedImmutable ==
    [][\A u \in DOMAIN tests \cap DOMAIN tests' :
           Derived(tests'[u]) = Derived(tests[u])]_vars

\* a row that create_payment and the webhook have both written still holds
\* the result of its answers
C13_Witness ==
    \E u \in DOMAIN tests :
        /\ tests[u].payment_id # NULL
        /\ tests[u].payment_status = "approved"
        /\ tests[u].score = IqScore(CorrectCount(tests[u].user_answers))
        /\ tests[u].level = Level(tests[u].score)

\* C14: a notification whose payment the provider returns sets the row named
\* by external_reference to approved when the payment is approved or
\* authorized and to rejected when it is rejected or cancelled; with any other
\* payment status, or without an external_reference, no row changes; no other
\* row changes in any case.
C14_StatusMapping ==
    [][(Handled("webhook") /\ resp'.code = 200 /\ resp'.body.outcome = "looked_up") =>
           LET s == resp'.body.payment_status
               e == resp'.body.external_reference
               target == IF s \in {"approved", "authorized"} THEN "approved"
                         ELSE IF s \in {"rejected", "cancelled"} THEN "rejected"
                         ELSE "none"
           IN /\ DOMAIN tests' = DOMAIN tests
              /\ \A u \in DOMAIN tests :
                     tests'[u] = IF u = e /\ e # NULL /\ target # "none"
                                 THEN [tests[u] EXCEPT !.payment_status = target]
                                 ELSE tests[u]]_vars

\* an authorized payment has approved its row
C14_Witness ==
    /\ resp.op = "webhook" /\ resp.code = 200 /\ resp.body.outcome = "looked_up"
    /\ resp.body.payment_status = "authorized"
    /\ resp.body.external_reference \in DOMAIN tests
    /\ tests[resp.body.external_reference].payment_status = "approved"

\* C15: when the lookup of the notified payment fails, the handler changes no
\* row, commits the log row of the notification and answers 200; the provider's
\* payment is as it was, so the same notification, delivered again with a
\* lookup that succeeds, still stores the status the payment maps to.
C15_LookupFailureTolerated ==
    [][(Handled("webhook")
        /\ resp'.body = [status |-> "ok", outcome |-> "lookup_failed"]) =>
           /\ resp'.code = 200
           /\ tests' = tests
           /\ webhook_logs' = Append(webhook_logs, LogRow(resp'.arg))
           /\ charges' = charges
           /\ LET id == PayloadId(resp'.arg)
              IN (id \in DOMAIN Provider /\ DoesUpdate(Provider[id])
                  /\ Provider[id].external_reference \in DOMAIN tests') =>
                     Reconcile(tests', Provider[id])[Provider[id].external_reference]
                         .payment_status
                     = IF Provider[id].status \in {"approved", "authorized"}
                       THEN "approved" ELSE "rejected"]_vars

\* the lookup of an approved payment failed: the row is still pending and the
\* notification is in the log
C15_Witness ==
    /\ resp.op = "webhook" /\ resp.code = 200 /\ resp.body.outcome = "lookup_failed"
    /\ PayloadId(resp.arg) \in DOMAIN charges
    /\ charges[PayloadId(resp.arg)].status = "approved"
    /\ charges[PayloadId(resp.arg)].external_reference \in DOMAIN tests
    /\ tests[charges[PayloadId(resp.arg)].external_reference].payment_status = "pending"
    /\ Len(webhook_logs) > 0
    /\ webhook_logs[Len(webhook_logs)] = LogRow(resp.arg)

\* C16: a notification whose event is not a payment update is acknowledged
\* with 200, is not looked up at the provider and changes no row.
C16_NonPaymentNoOp ==
    [][(Handled("webhook") /\ ~IsPaymentEvent(resp'.arg)) =>
           /\ resp'.code = 200
           /\ resp'.body.outcome \notin {"looked_up", "lookup_failed"}
           /\ tests' = tests]_vars

\* the provider reports the payment stored on row u as approved
PaidAtProvider(u) ==
    /\ u \in DOMAIN tests
    /\ tests[u].payment_id \in DOMAIN charges
    /\ charges[tests[u].payment_id].status = "approved"

\* C17: without any notification, a row whose payment the provider reports
\* as approved is eventually approved by the check_payment requests of the
\* polling client.
C17_PollApproves ==
    \A u \in AllUuids :
        PaidAtProvider(u) ~> (u \in DOMAIN tests /\ tests[u].payment_status = "approved")

\* C18: the cleanup thread outlives its failing ticks.  Ticks occur again and
\* again, and a pending row past its expires_at is eventually deleted.
C18_SweeperSurvives ==
    /\ []<><<Idle /\ Cleanup>>_vars
    /\ \A u \in AllUuids :
           (u \in DOMAIN tests /\ Expired(tests[u], now)) ~> (u \notin DOMAIN tests)

\* a tick has failed while an expired row waits, and the thread is running
C18_Witness ==
    /\ resp.op = "cleanup" /\ resp.code = 500
    /\ sweeper = "running"
    /\ \E u \in DOMAIN tests : Expired(tests[u], now)

\* C19: a submit_test that answers 200 adds exactly one row, under a uuid
\* that no row has and that was never generated before; the row is pending,
\* has no payment_id, and expires 24 hours after the time of the request;
\* every other row is as it was.  A submit_test that answers anything else adds no row.
C19_SubmitCreatesOneRow ==
    [][Handled("submit_test") =>
           /\ resp'.code = 200 =>
                  LET u == resp'.body.test_uuid
                  IN /\ u \notin DOMAIN tests \cup Generated
                     /\ DOMAIN tests' = DOMAIN tests \cup {u}
                     /\ \A v \in DOMAIN tests : tests'[v] = tests[v]
                     /\ tests'[u].payment_status = "pending"
                     /\ tests'[u].payment_id = NULL
                     /\ tests'[u].expires_at = now + 24
           /\ resp'.code # 200 => tests' = tests]_vars

\* a second row was stored a day after the first
C19_Witness ==
    /\ resp.op = "submit_test" /\ resp.code = 200
    /\ tests[resp.body.test_uuid].expires_at > 24
    /\ Cardinality(DOMAIN tests) >= 2

\* the table of the scoring engine for c correct answers out of 30, in
\* twelfths: the percentage p is 10c/3, so 12p = 40c, and the slopes 2, 1.5,
\* 1, 0.75, 0.75 and 0.5 give whole numbers of twelfths
TableTwelfths(c) ==
    IF 10 * c >= 3 * 95 THEN 12 * 145 + 2 * (40 * c - 12 * 95)
    ELSE IF 10 * c >= 3 * 85 THEN 12 * 130 + 3 * (20 * c - 6 * 85)
    ELSE IF 10 * c >= 3 * 70 THEN 12 * 115 + (40 * c - 12 * 70)
    ELSE IF 10 * c >= 3 * 50 THEN 12 * 100 + 3 * (10 * c - 3 * 50)
    ELSE IF 10 * c >= 3 * 30 THEN 12 * 85 + 3 * (10 * c - 3 * 30)
    ELSE 12 * 70 + 20 * c

\* truncated to an integer, then clamped to [50, 200]
TableScore(c) ==
    LET truncated == TableTwelfths(c) \div 12
    IN IF truncated < 50 THEN 50 ELSE IF truncated > 200 THEN 200 ELSE truncated

\* the bands Genius, Gifted, Above Average, Average, Below Average, under the
\* names the program gives them
TableLevel(score) ==
    IF score >= 140 THEN "Genio"
    ELSE IF score >= 130 THEN "Superdotado"
    ELSE IF score >= 115 THEN "Acima da Media"
    ELSE IF score >= 85 THEN "Media"
    ELSE "Abaixo da Media"

\* C20: the score of every stored row is the table's value for its count of
\* correct answers, truncated and clamped to [50, 200], and its level is the
\* band of that score; 30 correct answers give 155 and the highest band, none
\* gives 70 and the lowest band.
C20_ScoreTable ==
    \A u \in DOMAIN tests :
        LET c == tests[u].correct_answers
        IN /\ c = CorrectCount(tests[u].user_answers)
           /\ tests[u].score = TableScore(c)
           /\ tests[u].level = TableLevel(tests[u].score)
           /\ c = 30 => tests[u].score = 155 /\ tests[u].level = "Genio"
           /\ c = 0 => tests[u].score = 70 /\ tests[u].level = "Abaixo da Media"

\* a row with 30 correct answers and a row with none are stored
C20_Witness ==
    \E u, v \in DOMAIN tests :
        /\ tests[u].correct_answers = 30 /\ tests[u].score = 155
        /\ tests[v].correct_answers = 0 /\ tests[v].score = 70

\* the payment stored on row u is paid, or can still be paid: the provider
\* reports it as approved, or as pending before its date_of_expiration
PaidOrPayable(u) ==
    /\ tests[u].payment_id \in DOMAIN charges
    /\ LET payment == charges[tests[u].payment_id]
       IN \/ payment.status = "approved"
          \/ payment.status = "pending" /\ now < payment.date_of_expiration

\* C21: a paid row is not lost to the cleanup.  No step deletes a row whose
\* stored payment is approved at the provider or can still be approved, and
\* after a notification whose lookup returns an approved payment the row
\* named by its external_reference is stored as approved.
C21_PaidNeverSwept ==
    [][/\ \A u \in DOMAIN tests \ DOMAIN tests' : ~PaidOrPayable(u)
       /\ (/\ Handled("webhook") /\ resp'.code = 200
           /\ resp'.body.outcome = "looked_up"
           /\ resp'.body.payment_status = "approved"
           /\ resp'.body.external_reference # NULL)
          => /\ resp'.body.external_reference \in DOMAIN tests'
             /\ tests'[resp'.body.external_reference].payment_status = "approved"]_vars

\* C22: a notification changes the payment_status of a row only when the
\* notified payment is the one stored in the row's payment_id.
C22_MatchOnPaymentId ==
    [][Handled("webhook") =>
           \A u \in DOMAIN tests \cap DOMAIN tests' :
               tests'[u].payment_status # tests[u].payment_status =>
                   PayloadId(resp'.arg) = tests[u].payment_id]_vars

\* C23: when create_payment answers 200 with a payment_id for a uuid, the row
\* of that uuid is stored with that payment_id once the handler's UPDATE is
\* committed.
C23_AttachedOnSuccess ==
    [][(Handled("create_payment") /\ resp'.code = 200) =>
           /\ resp'.arg \in DOMAIN tests'
           /\ tests'[resp'.arg].payment_id = resp'.body.payment_id]_vars

====
